---------------------------- MODULE Spec2Model ----------------------------
(***************************************************************************)
(* Model of the @apostrophecms/template module (src/unnamed/part_000):     *)
(* page assembly (renderPageForModule, getBodyData), the render context    *)
(* (getRenderDataArgs), view-folder and environment resolution (getEnv,    *)
(* getViewFolders, newEnv, getLoader) and the insertion registry           *)
(* (prepend, append, insert, getInjectedComponents).                       *)
(*                                                                         *)
(* JavaScript values are denoted by the text of their literal: "undefined" *)
(* is undefined, "null" is null, "'1'" is the string '1', "1" the number 1.*)
(* Objects are functions from their own keys to values. Strings that the   *)
(* code searches or rewrites are sequences of tokens.                      *)
(***************************************************************************)
EXTENDS Integers, Sequences, FiniteSets, TLC

VARIABLES
  pc,          \* page assembly: where each renderPageForModule call stands
  entry,       \* page assembly: the request and data as passed in
  req,         \* page assembly: the request object (mutated by the call)
  aposBodyData,\* page assembly: the body data object built by getBodyData
  args,        \* page assembly: the args object built for the page template
  rendered,    \* page assembly: render() calls made for each request, in order
  logged,      \* page assembly: errors passed to logError for each request
  outcome,     \* page assembly: what module.render / insertBundlesMarkup did
  result,      \* page assembly: what renderPageForModule settled with
  call,        \* pure functions: the call under evaluation
  ret,         \* pure functions: its return value
  config,      \* environments: module chains and the viewsFolderFallback option
  envs,        \* environments: self.envs, module name -> environment
  loaders,     \* environments: self.loaders, cache key -> loader
  nextId,      \* environments: identity of the next object constructed
  counts,      \* environments: how often each method ran, per module name
  got,         \* environments: what each getEnv / getLoader call returned
  teardown,    \* environments: how far the apostrophe:destroy handler is
  asset,       \* insertions: the build set-up self.apos.asset reports
  insertions,  \* insertions: self.insertions, key -> entries
  registered,  \* insertions: the prepend/append calls made, in order
  injected,    \* insertions: the last getInjectedComponents call
  lastCall,    \* registrations: the last registration call and how it ended
  runtimeNodes,\* runtime nodes: self.runtimeNodes, key -> entries
  nodeCalls,   \* runtime nodes: the registrations that went through, in order
  nodesOut     \* runtime nodes: the last injectNodes call

pageVars == <<pc, entry, req, aposBodyData, args, rendered, logged, outcome,
              result>>
fnVars == <<call, ret>>
envVars == <<config, envs, loaders, nextId, counts, got, teardown>>
insVars == <<asset, insertions, registered, injected, lastCall, runtimeNodes,
             nodeCalls, nodesOut>>
vars == <<pc, entry, req, aposBodyData, args, rendered, logged, outcome,
          result, call, ret, config, envs, loaders, nextId, counts, got,
          teardown,
          asset, insertions, registered, injected, lastCall, runtimeNodes,
          nodeCalls, nodesOut>>

\* What the steps of one part of the module leave alone
notPage == <<fnVars, envVars, insVars>>
notFn == <<pageVars, envVars, insVars>>
notEnv == <<pageVars, fnVars, insVars>>
notIns == <<pageVars, fnVars, envVars>>

----------------------------------------------------------------------------
(* JavaScript helpers *)

\* JS truthiness of the values the model uses
Truthy(v) == v \notin {"undefined", "null", "''", "0", "false"}

\* _.extend(a, b): every own key of b is assigned over a
extend(a, b) ==
  [k \in (DOMAIN a) \cup (DOMAIN b) |-> IF k \in DOMAIN b THEN b[k] ELSE a[k]]

\* String.prototype.includes / endsWith / replace (first occurrence, string
\* pattern) on token sequences
includes(s, p) ==
  \E i \in 1..(Len(s) - Len(p) + 1) : SubSeq(s, i, i + Len(p) - 1) = p

endsWith(s, p) ==
  /\ Len(p) <= Len(s)
  /\ SubSeq(s, Len(s) - Len(p) + 1, Len(s)) = p

replace(s, p, q) ==
  IF ~includes(s, p) THEN s
  ELSE LET i == CHOOSE j \in 1..(Len(s) - Len(p) + 1) :
                  /\ SubSeq(s, j, j + Len(p) - 1) = p
                  /\ \A h \in 1..(j - 1) : SubSeq(s, h, h + Len(p) - 1) # p
       IN SubSeq(s, 1, i - 1) \o q \o SubSeq(s, i + Len(p), Len(s))

----------------------------------------------------------------------------
(* renderPageForModule: the unrefreshed() helper *)

RefreshParam == "aposRefresh=1"

unrefreshed(url) ==
  IF ~includes(url, <<RefreshParam>>) THEN url
  ELSE IF endsWith(url, <<"?", RefreshParam>>)
    THEN replace(url, <<"?", RefreshParam>>, <<>>)
  ELSE IF includes(url, <<"?", RefreshParam>>)
    THEN replace(url, <<"?", RefreshParam, "&">>, <<"?">>)
  ELSE replace(url, <<"&", RefreshParam>>, <<>>)

----------------------------------------------------------------------------
(* Page assembly: renderPageForModule and getBodyData.                     *)
(* Each call runs to its next await in one step; calls for different       *)
(* requests interleave at the awaits.                                      *)

NReqs == 2
Reqs == 1..NReqs

EmptyObj == <<>>
OuterLayout == "@apostrophecms/template:outerLayout.html"
RefreshLayout == "@apostrophecms/template:refreshLayout.html"
PageTemplate == "page"
NoError == "undefined"

\* req.user._permissions of the users of the model: guest has none
permissionsOf(user) == IF user = "admin" THEN "{admin:true}" ELSE "undefined"

\* The URL and the parsed query of a request go together
UrlAndQuery ==
  { [url |-> <<"/page">>, aposRefresh |-> "undefined"],
    [url |-> <<"/page", "?", RefreshParam>>, aposRefresh |-> "'1'"],
    [url |-> <<"/page", "?", "x=2", "&", RefreshParam>>, aposRefresh |-> "'1'"],
    [url |-> <<"/page">>, aposRefresh |-> "1"] }

\* The data argument of the caller
DataArgs ==
  { EmptyObj,
    [outerLayout |-> "custom.html"],
    [outerLayout |-> "undefined"],
    [refreshing |-> "'never'"] }

mkReq(user, scene, aposError, uq) ==
  [ user |-> user, scene |-> scene, aposError |-> aposError,
    url |-> uq.url, prefix |-> <<>>, aposRefresh |-> uq.aposRefresh,
    statusCode |-> "undefined", aposBodyDataAttributes |-> <<>> ]

\* Request 1 ranges over every input; the requests in flight beside it
\* differ in the error flag only.
Inputs(r) ==
  IF r = 1
  THEN { [req |-> mkReq(u, s, e, uq), data |-> d] :
           u \in {"undefined", "admin", "guest"},
           s \in {"undefined", "apos", "public"},
           e \in {NoError, "Error:pageBeforeSend"},
           uq \in UrlAndQuery,
           d \in DataArgs }
  ELSE { [req |-> mkReq("undefined", "undefined", e,
                        [url |-> <<"/page">>, aposRefresh |-> "undefined"]),
          data |-> EmptyObj] :
           e \in {NoError, "Error:pageBeforeSend"} }

IdleReq == mkReq("undefined", "undefined", NoError,
                 [url |-> <<>>, aposRefresh |-> "undefined"])
NoResult == [kind |-> "pending", value |-> <<>>, error |-> "undefined"]

\* getBodyData with the user deciding the scene even when the request has one
getBodyData_IgnoresReqScene(rq) ==
  LET scene == IF Truthy(rq.user) THEN "apos" ELSE "public"
  IN [ req |-> [rq EXCEPT !.scene = scene],
       aposBodyData |->
         [ scene |-> scene,
           user |-> IF Truthy(rq.user) THEN rq.user ELSE "undefined" ] ]

\* getBodyData up to its await of the addBodyData event: the scene, stored
\* on the request when it had none, and the body data object
getBodyData(rq) ==
  LET scene0 == IF Truthy(rq.user) THEN "apos" ELSE "public"
      scene == IF Truthy(rq.scene) THEN rq.scene ELSE scene0
  IN [ req |-> [rq EXCEPT !.scene = scene],
       aposBodyData |->
         [ scene |-> scene,
           user |-> IF Truthy(rq.user) THEN rq.user ELSE "undefined" ] ]

\* addBodyDataAttribute(req, { apos: JSON.stringify(aposBodyData) })
addBodyDataAttribute(rq, name, value) ==
  [rq EXCEPT !.aposBodyDataAttributes = Append(@, <<"data-", name, value>>)]

\* defaultArgs with the refresh flag compared by == instead of ===
defaultArgs_LooseEquality(rq, scene) ==
  LET decorate == rq.aposRefresh \notin {"'1'", "1"}
  IN [ outerLayout |-> IF decorate THEN OuterLayout ELSE RefreshLayout,
       permissions |-> IF Truthy(rq.user)
                         THEN (IF Truthy(permissionsOf(rq.user))
                                 THEN permissionsOf(rq.user) ELSE "{}")
                         ELSE rq.user,
       scene |-> scene,
       refreshing |-> IF decorate THEN "false" ELSE "true",
       query |-> rq.aposRefresh,
       url |-> unrefreshed(rq.prefix \o rq.url) ]

\* The defaults of the args object, before the caller's data is merged
defaultArgs(rq, scene) ==
  LET decorate == rq.aposRefresh # "'1'"
  IN [ outerLayout |-> IF decorate THEN OuterLayout ELSE RefreshLayout,
       permissions |-> IF Truthy(rq.user)
                         THEN (IF Truthy(permissionsOf(rq.user))
                                 THEN permissionsOf(rq.user) ELSE "{}")
                         ELSE rq.user,
       scene |-> scene,
       refreshing |-> IF decorate THEN "false" ELSE "true",
       query |-> rq.aposRefresh,
       url |-> unrefreshed(rq.prefix \o rq.url) ]

pageArgs(rq, scene, data) == extend(defaultArgs(rq, scene), data)

\* module.render and self.render resolve with the template's output
renderOutput(template) == <<"<", template, ">">>

\* insertBundlesMarkup (lib/bundlesLoader): the content with the bundle
\* markers filled in
insertBundlesMarkup(content) == <<"bundles">> \o content

\* logError(req, e): the lines written to the error log
logError(rq, e) ==
  [ url |-> rq.url,
    user |-> IF Truthy(rq.user) THEN rq.user ELSE "none",
    error |-> e ]

\* function error(e): log, force status 500, start rendering templateError
error(r, rq, e) ==
  /\ logged' = [logged EXCEPT ![r] = Append(@, logError(rq, e))]
  /\ req' = [req EXCEPT ![r] = [rq EXCEPT !.statusCode = "500"]]
  /\ rendered' = [rendered EXCEPT ![r] =
       Append(@, [by |-> "self", template |-> "templateError",
                  args |-> EmptyObj])]
  /\ pc' = [pc EXCEPT ![r] = "errorRender"]

\* renderPageForModule is called: it runs into getBodyData and awaits the
\* addBodyData event
Start(r) ==
  /\ pc[r] = "idle"
  /\ \E in \in Inputs(r) :
       /\ entry' = [entry EXCEPT ![r] = in]
       /\ req' = [req EXCEPT ![r] = getBodyData(in.req).req]
       /\ aposBodyData' =
            [aposBodyData EXCEPT ![r] = getBodyData(in.req).aposBodyData]
  /\ pc' = [pc EXCEPT ![r] = "addBodyData"]
  /\ UNCHANGED <<args, rendered, logged, outcome, result>>
  /\ UNCHANGED notPage

\* BodyDataReturn without the check of req.aposError
BodyDataReturn_IgnoresFlag(r) ==
  /\ pc[r] = "addBodyData"
  /\ LET rq == addBodyDataAttribute(req[r], "apos", aposBodyData[r])
         a == pageArgs(rq, aposBodyData[r].scene, entry[r].data)
     IN /\ args' = [args EXCEPT ![r] = a]
        /\ req' = [req EXCEPT ![r] = rq]
        /\ rendered' = [rendered EXCEPT ![r] =
             Append(@, [by |-> "module", template |-> PageTemplate,
                        args |-> a])]
        /\ pc' = [pc EXCEPT ![r] = "render"]
  /\ UNCHANGED <<entry, aposBodyData, logged, outcome, result>>
  /\ UNCHANGED notPage

\* getBodyData returns; the args are built; the request's error flag
\* decides between the error path and the render of the page template
BodyDataReturn(r) ==
  /\ pc[r] = "addBodyData"
  /\ LET rq == addBodyDataAttribute(req[r], "apos", aposBodyData[r])
         a == pageArgs(rq, aposBodyData[r].scene, entry[r].data)
     IN /\ args' = [args EXCEPT ![r] = a]
        /\ IF Truthy(rq.aposError)
             THEN error(r, rq, rq.aposError)
             ELSE /\ req' = [req EXCEPT ![r] = rq]
                  /\ rendered' = [rendered EXCEPT ![r] =
                       Append(@, [by |-> "module", template |-> PageTemplate,
                                  args |-> a])]
                  /\ pc' = [pc EXCEPT ![r] = "render"]
                  /\ UNCHANGED logged
  /\ UNCHANGED <<entry, aposBodyData, outcome, result>>
  /\ UNCHANGED notPage

\* RenderReturn with insertBundlesMarkup outside the try block: its throw
\* rejects the call without the error path
RenderReturn_BundlesUncaught(r) ==
  /\ pc[r] = "render"
  /\ \E o \in {"ok", "renderThrows", "bundlesThrow"} :
       /\ outcome' = [outcome EXCEPT ![r].render = o]
       /\ IF o = "renderThrows"
            THEN /\ error(r, req[r], "Error:render")
                 /\ UNCHANGED result
            ELSE /\ result' = [result EXCEPT ![r] =
                      IF o = "ok"
                        THEN [ kind |-> "returned",
                               value |-> insertBundlesMarkup(
                                           renderOutput(PageTemplate)),
                               error |-> "undefined" ]
                        ELSE [ kind |-> "rejected", value |-> <<>>,
                               error |-> "Error:bundles" ]]
                 /\ pc' = [pc EXCEPT ![r] = "done"]
                 /\ UNCHANGED <<req, rendered, logged>>
  /\ UNCHANGED <<entry, aposBodyData, args>>
  /\ UNCHANGED notPage

\* module.render settles; on success insertBundlesMarkup post-processes the
\* content and may throw as well; any throw is caught and takes error(e)
RenderReturn(r) ==
  /\ pc[r] = "render"
  /\ \E o \in {"ok", "renderThrows", "bundlesThrow"} :
       /\ outcome' = [outcome EXCEPT ![r].render = o]
       /\ IF o = "ok"
            THEN /\ result' = [result EXCEPT ![r] =
                      [ kind |-> "returned",
                        value |-> insertBundlesMarkup(renderOutput(PageTemplate)),
                        error |-> "undefined" ]]
                 /\ pc' = [pc EXCEPT ![r] = "done"]
                 /\ UNCHANGED <<req, rendered, logged>>
            ELSE /\ error(r, req[r], IF o = "renderThrows"
                                       THEN "Error:render" ELSE "Error:bundles")
                 /\ UNCHANGED result
  /\ UNCHANGED <<entry, aposBodyData, args>>
  /\ UNCHANGED notPage

\* ErrorRenderReturn with the error template's failure sent through
\* error(e) again
ErrorRenderReturn_Retries(r) ==
  /\ pc[r] = "errorRender"
  /\ \E o \in {"ok", "throws"} :
       /\ outcome' = [outcome EXCEPT ![r].errorRender = o]
       /\ IF o = "ok"
            THEN /\ result' = [result EXCEPT ![r] =
                      [ kind |-> "returned",
                        value |-> renderOutput("templateError"),
                        error |-> "undefined" ]]
                 /\ pc' = [pc EXCEPT ![r] = "done"]
                 /\ UNCHANGED <<req, rendered, logged>>
            ELSE /\ error(r, req[r], "Error:templateError")
                 /\ UNCHANGED result
  /\ UNCHANGED <<entry, aposBodyData, args>>
  /\ UNCHANGED notPage

\* self.render(req, 'templateError') settles: its value or its error is
\* what renderPageForModule settles with
ErrorRenderReturn(r) ==
  /\ pc[r] = "errorRender"
  /\ \E o \in {"ok", "throws"} :
       /\ outcome' = [outcome EXCEPT ![r].errorRender = o]
       /\ result' = [result EXCEPT ![r] =
            IF o = "ok"
              THEN [ kind |-> "returned",
                     value |-> renderOutput("templateError"),
                     error |-> "undefined" ]
              ELSE [ kind |-> "rejected", value |-> <<>>,
                     error |-> "Error:templateError" ]]
  /\ pc' = [pc EXCEPT ![r] = "done"]
  /\ UNCHANGED <<entry, req, aposBodyData, args, rendered, logged>>
  /\ UNCHANGED notPage

PageInit ==
  /\ pc = [r \in Reqs |-> "idle"]
  /\ entry = [r \in Reqs |-> [req |-> IdleReq, data |-> EmptyObj]]
  /\ req = [r \in Reqs |-> IdleReq]
  /\ aposBodyData = [r \in Reqs |-> getBodyData(IdleReq).aposBodyData]
  /\ args = [r \in Reqs |-> EmptyObj]
  /\ rendered = [r \in Reqs |-> <<>>]
  /\ logged = [r \in Reqs |-> <<>>]
  /\ outcome = [r \in Reqs |-> [render |-> "none", errorRender |-> "none"]]
  /\ result = [r \in Reqs |-> NoResult]

----------------------------------------------------------------------------
(* unrefreshed(req.prefix + req.url) over the URLs a client can request *)

MaxParams == 3

\* The parameters of the model: the refresh flag, a parameter that begins
\* with the same text (aposRefresh=10) and two unrelated ones
RefreshFlag == <<RefreshParam>>
QueryParams == { RefreshFlag, <<RefreshParam, "0">>, <<"x=2">>, <<"y=3">> }

RECURSIVE joinParams(_)
joinParams(ps) ==
  IF ps = <<>> THEN <<>>
  ELSE IF Len(ps) = 1 THEN ps[1]
  ELSE ps[1] \o <<"&">> \o joinParams(Tail(ps))

\* The text of a URL: prefix, path and the parameters joined with & after ?
urlText(prefix, path, ps) ==
  prefix \o path \o (IF ps = <<>> THEN <<>> ELSE <<"?">> \o joinParams(ps))

ParamLists == UNION { [1..n -> QueryParams] : n \in 0..MaxParams }

UrlCalls ==
  { [fn |-> "unrefreshed", prefix |-> px, path |-> <<"/page">>, params |-> ps] :
      px \in {<<>>, <<"/site">>}, ps \in ParamLists }

Pending == [done |-> FALSE, value |-> <<>>]

UrlInit == call \in UrlCalls /\ ret = Pending

\* url: unrefreshed(req.prefix + req.url)
Unrefresh ==
  /\ call.fn = "unrefreshed"
  /\ ~ret.done
  /\ ret' = [done |-> TRUE,
             value |-> unrefreshed(urlText(call.prefix, call.path, call.params))]
  /\ UNCHANGED call
  /\ UNCHANGED notFn

\* C8: for any URL whose query string holds the parameter aposRefresh=1
\* exactly once, the url default is that URL with exactly that parameter
\* removed, the other parameters kept in order, and no dangling & or ?.
C8_StripsTheFlag ==
  (ret.done /\ Len(SelectSeq(call.params, LAMBDA q : q = RefreshFlag)) = 1) =>
    ret.value = urlText(call.prefix, call.path,
                        SelectSeq(call.params, LAMBDA q : q # RefreshFlag))

----------------------------------------------------------------------------
(* getRenderDataArgs *)

\* _.defaults(dst, src): a key of src is assigned where dst has undefined
defaults(dst, src) ==
  [k \in (DOMAIN dst) \cup (DOMAIN src) |->
     IF k \in DOMAIN dst /\ dst[k] # "undefined" THEN dst[k]
     ELSE IF k \in DOMAIN src THEN src[k] ELSE dst[k]]

valueOf(obj, k) == IF k \in DOMAIN obj THEN obj[k] ELSE "undefined"

\* The objects a source can be: each key absent, or present with the
\* source's own value or with undefined (locale: with the empty string)
Objects(tag) ==
  { [k \in ks |-> IF k \in und THEN (IF k = "locale" THEN "''" ELSE "undefined")
                  ELSE tag] :
      ks \in SUBSET {"user", "locale", "title"},
      und \in SUBSET {"user", "locale", "title"} }

\* A source that may be missing altogether (if (data), if (req.data),
\* if (module.templateData))
Sources(tag) ==
  { [given |-> TRUE, obj |-> o] : o \in Objects(tag) }
    \cup { [given |-> FALSE, obj |-> EmptyObj] }

DataCalls ==
  { [fn |-> "getRenderDataArgs", data |-> d, reqData |-> rd, templateData |-> td,
     user |-> u, locale |-> "en"] :
      d \in Sources("d"), rd \in Sources("r"), td \in Sources("t"),
      u \in {"undefined", "admin"} }

\* { user: req.user, permissions: (req.user && req.user._permissions) || {} }
requestDefaults(user) ==
  [ user |-> user,
    permissions |-> IF Truthy(user) /\ Truthy(permissionsOf(user))
                      THEN permissionsOf(user) ELSE "{}" ]

\* getRenderDataArgs with req.data merged before the data argument
getRenderDataArgs_ReqDataFirst(c) ==
  LET m1 == IF c.reqData.given THEN defaults(EmptyObj, c.reqData.obj) ELSE EmptyObj
      m2 == IF c.data.given THEN defaults(m1, c.data.obj) ELSE m1
      m3 == defaults(m2, requestDefaults(c.user))
      m4 == IF c.templateData.given THEN defaults(m3, c.templateData.obj) ELSE m3
  IN extend(m4, [locale |-> IF Truthy(valueOf(m4, "locale"))
                              THEN m4.locale ELSE c.locale])

getRenderDataArgs(c) ==
  LET m1 == IF c.data.given THEN defaults(EmptyObj, c.data.obj) ELSE EmptyObj
      m2 == IF c.reqData.given THEN defaults(m1, c.reqData.obj) ELSE m1
      m3 == defaults(m2, requestDefaults(c.user))
      m4 == IF c.templateData.given THEN defaults(m3, c.templateData.obj) ELSE m3
  IN extend(m4, [locale |-> IF Truthy(valueOf(m4, "locale"))
                              THEN m4.locale ELSE c.locale])

DataInit == call \in DataCalls /\ ret = Pending

RenderDataArgs ==
  /\ call.fn = "getRenderDataArgs"
  /\ ~ret.done
  /\ ret' = [done |-> TRUE, value |-> getRenderDataArgs(call)]
  /\ UNCHANGED call
  /\ UNCHANGED notFn

ContextKeys == {"user", "permissions", "locale", "title"}

\* The value for key k of the first source of the list in which the key is
\* not undefined
firstDefined(srcs, k) ==
  LET S == {i \in DOMAIN srcs : valueOf(srcs[i], k) # "undefined"}
  IN IF S = {} THEN "undefined"
     ELSE srcs[CHOOSE i \in S : \A j \in S : i <= j][k]

\* C6 as stated: the sources in increasing priority are templateData,
\* req.data, data and the request-derived defaults (user, permissions,
\* locale); a key present in several sources has the value of the
\* highest-priority one (a source counts for a key when its value there is
\* not undefined).
C6_DefaultsWin ==
  ret.done =>
    \A k \in ContextKeys :
      valueOf(ret.value, k) =
        firstDefined(
          << extend(requestDefaults(call.user), [locale |-> call.locale]),
             call.data.obj, call.reqData.obj, call.templateData.obj >>, k)

\* C6 (amended): the sources in increasing priority are templateData, the
\* request-derived user and permissions, req.data and data; a key has the
\* value of the highest-priority source in which it is not undefined;
\* locale is that merged value when truthy and req.locale otherwise.
C6_DataWins ==
  ret.done =>
    \A k \in ContextKeys :
      LET v == firstDefined(
                 << call.data.obj, call.reqData.obj,
                    requestDefaults(call.user), call.templateData.obj >>, k)
      IN valueOf(ret.value, k) =
           IF k = "locale" /\ ~Truthy(v) THEN call.locale ELSE v

C6_Witness ==
  /\ ret.done
  /\ call.user = "admin"
  /\ valueOf(call.data.obj, "user") = "d"
  /\ valueOf(call.templateData.obj, "user") = "t"
  /\ ret.value.user = "d"

----------------------------------------------------------------------------
(* Environments and loaders: getEnv, getViewFolders, newEnv, getLoader *)

MaxChain == 3
ModuleNames == {"article", "article-page"}
Dirs == {"/core/module", "/core/doc-type", "/core/piece-type", "/project/article"}
RootDir == "/project"

Reverse(s) == [i \in 1..Len(s) |-> s[Len(s) + 1 - i]]

\* module.__meta.chain: the ancestors' directories, each directory once,
\* starting at the base class every module extends
Chains ==
  { c \in UNION { [1..n -> Dirs] : n \in 1..MaxChain } :
      /\ c[1] = "/core/module"
      /\ \A i, j \in DOMAIN c : i # j => c[i] # c[j] }

\* self.options.viewsFolderFallback: <<>> when the option is not set
FallbackOptions == { <<>>, <<"/project/shared-views">> }

Configs ==
  { [chain |-> ch, viewsFolderFallback |-> fb] :
      ch \in [ModuleNames -> Chains], fb \in FallbackOptions }

\* getViewFolders with the chain left in its own order
getViewFolders_NotReversed(cfg, name) ==
  LET dirs == [i \in DOMAIN cfg.chain[name] |-> <<cfg.chain[name][i], "/views">>]
      viewsFolderFallback ==
        IF cfg.viewsFolderFallback # <<>> THEN cfg.viewsFolderFallback
        ELSE <<RootDir, "/views">>
  IN Append(dirs, viewsFolderFallback)

getViewFolders(cfg, name) ==
  LET dirs == [i \in DOMAIN cfg.chain[name] |-> <<cfg.chain[name][i], "/views">>]
      viewsFolderFallback ==
        IF cfg.viewsFolderFallback # <<>> THEN cfg.viewsFolderFallback
        ELSE <<RootDir, "/views">>
  IN Append(Reverse(dirs), viewsFolderFallback)

\* The caches and counters a call works on
Store == [envs |-> envs, loaders |-> loaders, nextId |-> nextId, counts |-> counts]

bump(st, method, name) ==
  [st EXCEPT !.counts[method][name] = @ + 1]

\* new NunjucksLoader(moduleName, dirs, ...)
newLoader(id, moduleName, dirs) ==
  [id |-> id, moduleName |-> moduleName, dirs |-> dirs]

\* A cache key that leaves the directories out
loaderKey_NameOnly(moduleName, dirs) == <<"moduleName", moduleName>>

\* A cache key that leaves the module name out
loaderKey_DirsOnly(moduleName, dirs) == <<"dirs", dirs>>

\* JSON.stringify({ moduleName, dirs })
loaderKey(moduleName, dirs) == <<"moduleName", moduleName, "dirs", dirs>>

getLoader(st, moduleName, dirs) ==
  LET key == loaderKey(moduleName, dirs)
  IN IF key \in DOMAIN st.loaders
       THEN [st |-> st, loader |-> st.loaders[key]]
       ELSE LET l == newLoader(st.nextId, moduleName, dirs)
            IN [ st |-> [bump(st, "newLoader", moduleName) EXCEPT
                           !.loaders = (key :> l) @@ @,
                           !.nextId = @ + 1],
                 loader |-> l ]

\* The filters every environment gets: the standard ones, then self.filters,
\* then options.filters
StandardFilters ==
  { "date", "query", "json", "build", "striptags", "nlbr", "nlp", "css",
    "clonePermanent", "jsonAttribute", "merge" }

\* The custom tags of the modules (customTags of this module)
CustomTags == { "component", "fragment", "render", "rendercall" }

newEnv(st, r, moduleName, dirs) ==
  LET gl == getLoader(st, moduleName, dirs)
      env == [ id |-> gl.st.nextId, module |-> moduleName,
               loader |-> gl.loader.id, dirs |-> gl.loader.dirs,
               globals |-> {"apos", "module"},
               filters |-> StandardFilters, extensions |-> CustomTags ]
  IN [ st |-> [bump(gl.st, "newEnv", moduleName) EXCEPT !.nextId = @ + 1],
       env |-> env ]

setStore(st) ==
  /\ envs' = st.envs
  /\ loaders' = st.loaders
  /\ nextId' = st.nextId
  /\ counts' = st.counts

\* getEnv without the test of the cache
GetEnv_NoCache(r, name) ==
  /\ LET st0 == bump(Store, "getViewFolders", name)
         ne == newEnv(st0, r, name, getViewFolders(config, name))
     IN /\ setStore([ne.st EXCEPT !.envs = (name :> ne.env) @@ @])
        /\ got' = got \cup {[name |-> name, req |-> r, env |-> ne.env]}
  /\ UNCHANGED <<config, teardown>>
  /\ UNCHANGED notEnv

\* getEnv(req, module): synchronous, so one step
GetEnv(r, name) ==
  /\ IF name \notin DOMAIN envs
       THEN LET st0 == bump(Store, "getViewFolders", name)
                ne == newEnv(st0, r, name, getViewFolders(config, name))
            IN /\ setStore([ne.st EXCEPT !.envs = (name :> ne.env) @@ @])
               /\ got' = got \cup {[name |-> name, req |-> r, env |-> ne.env]}
       ELSE /\ got' = got \cup {[name |-> name, req |-> r, env |-> envs[name]]}
            /\ UNCHANGED <<envs, loaders, nextId, counts>>
  /\ UNCHANGED <<config, teardown>>
  /\ UNCHANGED notEnv

NoCalls ==
  [m \in {"getViewFolders", "newEnv", "newLoader"} |-> [n \in ModuleNames |-> 0]]

\* The handler has not run
NoTeardown == [pc |-> "idle", order |-> <<>>, called |-> <<>>]

EnvStart ==
  /\ envs = <<>>
  /\ loaders = <<>>
  /\ nextId = 1
  /\ counts = NoCalls
  /\ got = {}
  /\ teardown = NoTeardown

MaxLoaderCalls == 3

\* Ordered lists of view folders
DirLists ==
  { << <<"/project/article", "/views">> >>,
    << <<"/project/article", "/views">>, <<"/core/module", "/views">> >>,
    << <<"/core/module", "/views">>, <<"/project/article", "/views">> >> }

\* getLoader(moduleName, dirs), called directly
GetLoader(name, dirs) ==
  LET gl == getLoader(Store, name, dirs)
  IN /\ teardown.pc = "idle"
     /\ Cardinality(got) < MaxLoaderCalls
     /\ setStore(gl.st)
     /\ got' = got \cup {[n |-> Cardinality(got) + 1, name |-> name,
                           dirs |-> dirs, loader |-> gl.loader.id]}
     /\ UNCHANGED <<config, teardown>>
     /\ UNCHANGED notEnv

\* Object.values(self.loaders || {}): the loaders in the order they were
\* cached, by identity
RECURSIVE valuesOf(_)
valuesOf(ids) ==
  IF ids = {} THEN <<>>
  ELSE LET first == CHOOSE i \in ids : \A j \in ids : i <= j
       IN <<first>> \o valuesOf(ids \ {first})

\* apostrophe:destroy, nunjucksLoaderCleanup: up to the first await, that
\* is with destroy called on the first loader
NunjucksLoaderCleanup ==
  LET order == valuesOf({loaders[k].id : k \in DOMAIN loaders})
  IN /\ teardown.pc = "idle"
     /\ teardown' = IF order = <<>>
                      THEN [pc |-> "done", order |-> order, called |-> <<>>]
                      ELSE [pc |-> "awaiting", order |-> order,
                            called |-> <<order[1]>>]
     /\ UNCHANGED <<config, envs, loaders, nextId, counts, got>>
     /\ UNCHANGED notEnv

\* The awaited loader.destroy() settles: fulfilled, the loop goes on to the
\* next loader; rejected, the exception leaves the loop and the handler
DestroySettles(fulfilled) ==
  LET n == Len(teardown.called)
  IN /\ teardown.pc = "awaiting"
     /\ teardown' =
          IF ~fulfilled THEN [teardown EXCEPT !.pc = "failed"]
          ELSE IF n = Len(teardown.order) THEN [teardown EXCEPT !.pc = "done"]
          ELSE [teardown EXCEPT !.called = Append(@, teardown.order[n + 1])]
     /\ UNCHANGED <<config, envs, loaders, nextId, counts, got>>
     /\ UNCHANGED notEnv

EnvInit == config \in Configs /\ EnvStart

----------------------------------------------------------------------------
(* Insertions: prepend, append, insert, getInjectedComponents *)

MaxInsertions == 2

\* conditions.when: not given, one string, or an array of strings; each
\* string is a condition name with an optional :argument
NoWhen == [kind |-> "undefined", vals |-> <<>>]
WhenString(v) == [kind |-> "string", vals |-> <<v>>]
WhenArray(vs) == [kind |-> "array", vals |-> vs]

\* The conditions of an entry: undefined, null, or an object with the
\* optional keys when and bundler
Conditions(tag, when, bundler) == [tag |-> tag, when |-> when, bundler |-> bundler]
Undefined == Conditions("undefined", NoWhen, "undefined")
Null == Conditions("null", NoWhen, "undefined")

\* The when / bundler combinations modules register with
ConditionKeys ==
  { [when |-> WhenString(<<"hmr", ":", "apos">>), bundler |-> "vite"],
    [when |-> WhenArray(<< <<"hmr">>, <<"dev">> >>), bundler |-> "undefined"],
    [when |-> WhenArray(<< <<"hmr">>, <<"watch">> >>), bundler |-> "undefined"],
    [when |-> WhenArray(<< <<"hmr">>, <<"toString">> >>), bundler |-> "undefined"],
    [when |-> NoWhen, bundler |-> "vite"] }

Components == {"asset:hmr-client", "seo:meta"}
Locations == {"head"}
Ends == {"prepend", "append"}

\* One prepend / append call: (location, componentName, conditions) or the
\* single object { component, where, when, bundler }
positional(e, l, c, conditions) ==
  [end |-> e, object |-> FALSE, location |-> l, component |-> c,
   conditions |-> conditions, where |-> "undefined", rest |-> NoWhen,
   restBundler |-> "undefined"]
single(e, l, c, k) ==
  [end |-> e, object |-> TRUE, location |-> "undefined", component |-> c,
   conditions |-> Undefined, where |-> l, rest |-> k.when,
   restBundler |-> k.bundler]

\* The calls of the model: unconditional ones at either end, conditional
\* ones, and object-signature ones with and without extra keys
Registrations ==
  { positional(e, l, c, Undefined) :
      e \in Ends, l \in Locations, c \in Components }
  \cup
  { positional("prepend", l, "asset:hmr-client",
               Conditions("object", k.when, k.bundler)) :
      l \in Locations, k \in ConditionKeys }
  \cup
  { single("prepend", l, "seo:meta", k) :
      l \in Locations,
      k \in { [when |-> NoWhen, bundler |-> "undefined"],
              [when |-> WhenString(<<"hmr">>), bundler |-> "undefined"] } }

insertionKey(end, location) == <<end, "-", location>>

\* What insert makes of a call: the location and the entry it stores. The
\* object signature keeps the keys besides component and where as the
\* conditions, or null when there are none
locationOf(c) == IF c.object THEN c.where ELSE c.location

entryOf(c) ==
  [component |-> c.component,
   conditions |->
     IF c.object
       THEN (IF c.rest.kind # "undefined" \/ c.restBundler # "undefined"
               THEN Conditions("object", c.rest, c.restBundler)
               ELSE Null)
       ELSE c.conditions]

\* self.insertions[key] || []
listAt(ins, key) == IF key \in DOMAIN ins THEN ins[key] ELSE <<>>

\* insert with the new entry put first (unshift for push)
insert_Unshift(ins, c) ==
  LET key == insertionKey(c.end, locationOf(c))
  IN (key :> (<<entryOf(c)>> \o listAt(ins, key))) @@ ins

\* insert(end, location, componentName, conditions)
insert(ins, c) ==
  LET key == insertionKey(c.end, locationOf(c))
  IN (key :> Append(listAt(ins, key), entryOf(c))) @@ ins

\* getInjectConditionHandlers(): hmr(kind), dev(), prod()
Handlers == {"hmr", "dev", "prod"}

\* The handlers object is an object literal: handlers[fn] also finds what it
\* inherits from Object.prototype, of which toString stands for the
\* functions that return a truthy value whatever they are passed
Inherited == {"toString"}

handler(fn, arg, a) ==
  IF fn = "hmr"
    THEN (IF arg # "undefined" THEN a.hasHMR /\ a.devServer = arg ELSE a.hasHMR)
  ELSE IF fn = "dev" THEN a.isDevMode
  ELSE IF fn = "prod" THEN a.isProductionMode
  ELSE TRUE

\* when.every(val => ...): the verdict, and the errors logged for unknown
\* condition names up to the first condition that is false
RECURSIVE every(_, _)
every(vals, a) ==
  IF vals = <<>> THEN [met |-> TRUE, errors |-> <<>>]
  ELSE LET fn == vals[1][1]
           arg == IF Len(vals[1]) >= 3 THEN vals[1][3] ELSE "undefined"
       IN IF fn \notin Handlers \cup Inherited
            THEN [met |-> FALSE, errors |-> <<"Invalid inject condition">>]
          ELSE IF ~handler(fn, arg, a) THEN [met |-> FALSE, errors |-> <<>>]
          ELSE every(Tail(vals), a)

\* currentBundler taken to be whatever the entry asks for
currentBundler_AlwaysVite(a) == "vite"

\* self.apos.asset.hasBuildModule() ? getBuildModuleAlias() : 'webpack'
currentBundler(a) ==
  IF a.buildModuleAlias # "undefined" THEN a.buildModuleAlias ELSE "webpack"

\* ({ component, conditions = {} }): the default replaces undefined only
withDefault(conditions) ==
  IF conditions.tag = "undefined"
    THEN Conditions("object", NoWhen, "undefined") ELSE conditions

\* Normalization that forgets a when given as a string
normalize_DropsString(when) ==
  IF when.kind = "array" THEN when ELSE WhenArray(<<>>)

\* conditions.when = conditions.when ? [ conditions.when ] : [], unless
\* it is an array already
normalize(when) ==
  IF when.kind = "array" THEN when ELSE WhenArray(when.vals)

\* The agreement test without the comparison against the entry's when
\* values when there are some
whenAgrees_AnyTag(when, data) ==
  /\ ~(data.when # "undefined" /\ Len(when.vals) = 0)
  /\ ~(data.when = "undefined" /\ Len(when.vals) > 0)

\* The agreement test letting an empty when list through under any tag
whenAgrees_EmptyPasses(when, data) ==
  LET names == {when.vals[i][1] : i \in DOMAIN when.vals}
  IN /\ ~(data.when # "undefined" /\ Len(when.vals) > 0 /\ data.when \notin names)
     /\ ~(data.when = "undefined" /\ Len(when.vals) > 0)

\* Both sides' when should match: neither of the two early returns on
\* data.when and conditions.when is taken
whenAgrees(when, data) ==
  LET names == {when.vals[i][1] : i \in DOMAIN when.vals}
  IN /\ ~(data.when # "undefined" /\ data.when \notin names)
     /\ ~(data.when = "undefined" /\ Len(when.vals) > 0)

\* One pass of the forEach callback over an entry: whether its component is
\* pushed, the entry as the pass leaves it, the errors logged, and whether
\* the pass threw (conditions not an object: property read of null)
visit(e, data, a) ==
  LET conditions == withDefault(e.conditions)
      stored == e.conditions.tag = "object"
      when == normalize(conditions.when)
      after == IF stored THEN [e EXCEPT !.conditions.when = when] ELSE e
      voted == every(when.vals, a)
      out(push, left, errors, threw) ==
        [push |-> push, entry |-> left, errors |-> errors, threw |-> threw]
  IN IF conditions.tag # "object" THEN out(FALSE, e, <<>>, TRUE)
     ELSE IF /\ conditions.bundler = "undefined"
             /\ conditions.when.kind = "undefined"
             /\ data.when = "undefined"
       THEN out(TRUE, e, <<>>, FALSE)
     ELSE IF ~whenAgrees(when, data)
       THEN out(FALSE, after, <<>>, FALSE)
     ELSE IF /\ conditions.bundler # "undefined"
             /\ currentBundler(a) # conditions.bundler
       THEN out(FALSE, after, voted.errors, FALSE)
     ELSE out(voted.met, after, voted.errors, FALSE)

\* The forEach over the entries from index i on; acc is the call so far
RECURSIVE forEach(_, _, _, _, _)
forEach(list, i, data, a, acc) ==
  IF i > Len(list) \/ acc.threw THEN acc
  ELSE LET v == visit(list[i], data, a)
       IN forEach(list, i + 1, data, a,
            [ list |-> [acc.list EXCEPT ![i] = v.entry],
              components |-> IF v.push THEN Append(acc.components, list[i].component)
                             ELSE acc.components,
              positions |-> IF v.push THEN Append(acc.positions, i)
                            ELSE acc.positions,
              errors |-> acc.errors \o v.errors,
              threw |-> v.threw ])

\* getInjectedComponents(key, data)
getInjectedComponents(ins, key, data, a) ==
  LET list == listAt(ins, key)
  IN forEach(list, 1, data, a,
       [list |-> list, components |-> <<>>, positions |-> <<>>,
        errors |-> <<>>, threw |-> FALSE])

\* The build set-ups of the model: the internal webpack build in
\* production, vite in development with and without HMR for the apos scene
Assets ==
  { [hasHMR |-> FALSE, devServer |-> "false", isDevMode |-> FALSE,
     isProductionMode |-> TRUE, buildModuleAlias |-> "undefined"],
    [hasHMR |-> TRUE, devServer |-> "apos", isDevMode |-> TRUE,
     isProductionMode |-> FALSE, buildModuleAlias |-> "vite"],
    [hasHMR |-> FALSE, devServer |-> "false", isDevMode |-> TRUE,
     isProductionMode |-> FALSE, buildModuleAlias |-> "vite"] }

\* The when tag of an inject call site
WhenTags == {"undefined", "hmr", "dev"}

NoInjected ==
  [called |-> FALSE, key |-> <<>>, when |-> "undefined", seen |-> 0,
   threw |-> FALSE,
   components |-> <<>>, positions |-> <<>>, errors |-> <<>>]

\* Values that are not strings, by their source text
NotStrings == {"function () {}", "undefined"}

\* A registration call and how it ended
Ended(fn, threw, message, component, moduleName, method) ==
  [fn |-> fn, threw |-> threw, message |-> message, component |-> component,
   moduleName |-> moduleName, method |-> method]
NoCall == Ended("-", FALSE, "", "-", "-", "-")

\* prepend / append without the test of the component name
prepend_Unchecked(ins, c) ==
  [threw |-> FALSE, message |-> "", insertions |-> insert(ins, c)]

\* prepend / append: the component name must be a string, then insert
prepend(ins, c) ==
  IF c.component \in NotStrings
    THEN [threw |-> TRUE, message |-> "Do not pass a function",
          insertions |-> ins]
    ELSE [threw |-> FALSE, message |-> "", insertions |-> insert(ins, c)]

\* apos.template.prepend(...) / append(...)
Register(c) ==
  LET r == prepend(insertions, c)
  IN /\ Len(registered) < MaxInsertions
     /\ insertions' = r.insertions
     /\ registered' = IF r.threw THEN registered ELSE Append(registered, c)
     /\ lastCall' = Ended(c.end, r.threw, r.message, c.component, "-", "-")
     /\ UNCHANGED <<asset, injected, runtimeNodes, nodeCalls, nodesOut>>
     /\ UNCHANGED notIns

\* The inject component asks for the components of a key
GetInjected(end, location, when) ==
  LET key == insertionKey(end, location)
      r == getInjectedComponents(insertions, key, [when |-> when], asset)
  IN /\ injected' = [called |-> TRUE, key |-> key, when |-> when,
                      seen |-> Len(r.list),
                      threw |-> r.threw,
                      components |-> IF r.threw THEN <<>> ELSE r.components,
                      positions |-> IF r.threw THEN <<>> ELSE r.positions,
                      errors |-> r.errors]
     /\ insertions' = IF key \in DOMAIN insertions
                        THEN [insertions EXCEPT ![key] = r.list]
                        ELSE insertions
     /\ UNCHANGED <<asset, registered, lastCall, runtimeNodes, nodeCalls,
                    nodesOut>>
     /\ UNCHANGED notIns

NoNodesOut ==
  [called |-> FALSE, key |-> <<>>, req |-> "-", seen |-> 0, invoked |-> <<>>,
   html |-> <<>>, threw |-> FALSE]

InsStart ==
  /\ insertions = <<>>
  /\ registered = <<>>
  /\ injected = NoInjected
  /\ lastCall = NoCall
  /\ runtimeNodes = <<>>
  /\ nodeCalls = <<>>
  /\ nodesOut = NoNodesOut

InsInit == asset \in Assets /\ InsStart

----------------------------------------------------------------------------
(* Virtual nodes: renderNodes *)

MaxNodes == 2

\* Strings are sequences of tokens; " " and "\n" are the whitespace tokens
Whitespace == {" ", "\n"}

RECURSIVE trimStart(_)
trimStart(s) ==
  IF s # <<>> /\ s[1] \in Whitespace THEN trimStart(Tail(s)) ELSE s

RECURSIVE trimEnd(_)
trimEnd(s) ==
  IF s # <<>> /\ s[Len(s)] \in Whitespace
    THEN trimEnd(SubSeq(s, 1, Len(s) - 1)) ELSE s

trim(s) == trimEnd(trimStart(s))

\* self.apos.util.escapeHtml: the markup characters become entities
escapeHtml(s) ==
  [i \in DOMAIN s |->
     IF s[i] = "&" THEN "&amp;"
     ELSE IF s[i] = "<" THEN "&lt;"
     ELSE IF s[i] = ">" THEN "&gt;"
     ELSE IF s[i] = "\"" THEN "&quot;"
     ELSE IF s[i] = "&amp;" THEN "&amp;amp;"
     ELSE IF s[i] = "&lt;" THEN "&amp;lt;"
     ELSE IF s[i] = "&gt;" THEN "&amp;gt;"
     ELSE IF s[i] = "&quot;" THEN "&amp;quot;"
     ELSE s[i]]

\* require('void-elements'), by tag name
VoidElements == {<<"meta">>, <<"link">>, <<"br">>}

\* A node object: a property that is not set is the empty string, attrs are
\* [key, value] entries in the object's order, and the array holes null and
\* undefined are marked by isNull
Shapeless ==
  [isNull |-> FALSE, text |-> <<>>, comment |-> <<>>, raw |-> <<>>,
   name |-> <<>>, attrs |-> <<>>, hasBody |-> FALSE, body |-> <<>>]
NullNode == [Shapeless EXCEPT !.isNull = TRUE]
Text(t) == [Shapeless EXCEPT !.text = t]
Comment(t) == [Shapeless EXCEPT !.comment = t]
Raw(t) == [Shapeless EXCEPT !.raw = t]
Element(name, attrs) == [Shapeless EXCEPT !.name = name, !.attrs = attrs]
ElementWith(name, attrs, body) ==
  [Shapeless EXCEPT !.name = name, !.attrs = attrs, !.hasBody = TRUE,
                    !.body = body]

\* Attribute values: true, false, null, undefined, or a string
Attr(key, lit, str) == [key |-> key, lit |-> lit, str |-> str]

\* An attribute with value false written out like a string
renderAttr_FalseAsString(a) ==
  IF a.lit \in {"null", "undefined"} THEN <<>>
  ELSE IF a.lit = "true" THEN <<" ">> \o escapeHtml(a.key)
  ELSE <<" ">> \o escapeHtml(a.key) \o <<"=", "\"">>
         \o escapeHtml(IF a.lit = "false" THEN <<"false">> ELSE a.str)
         \o <<"\"">>

\* The callback mapped over Object.entries(node.attrs || {})
renderAttr(a) ==
  IF a.lit \in {"false", "null", "undefined"} THEN <<>>
  ELSE IF a.lit = "true" THEN <<" ">> \o escapeHtml(a.key)
  ELSE <<" ">> \o escapeHtml(a.key) \o <<"=", "\"">> \o escapeHtml(a.str)
         \o <<"\"">>

RECURSIVE joinAttrs(_)
joinAttrs(attrs) ==
  IF attrs = <<>> THEN <<>> ELSE renderAttr(attrs[1]) \o joinAttrs(Tail(attrs))

\* What a rendering gives: the text, the errors logged, whether it threw
Rendering(out, errors, threw) == [out |-> out, logged |-> errors, threw |-> threw]

\* renderNodes' map callback over one node, and the map over an array; a
\* throw ends the map
RECURSIVE renderNode(_), mapNodes(_), renderNodes(_)
renderNode(node) ==
  IF node.isNull THEN Rendering(<<>>, 0, TRUE)
  ELSE IF node.text # <<>> THEN Rendering(escapeHtml(node.text), 0, FALSE)
  ELSE IF node.comment # <<>>
    THEN Rendering(<<"\n", "<!--", " ">> \o escapeHtml(node.comment)
                     \o <<" ", "-->", "\n">>, 0, FALSE)
  ELSE IF node.raw # <<>> THEN Rendering(node.raw, 0, FALSE)
  ELSE IF node.name # <<>>
    THEN LET name == escapeHtml(node.name)
             attrs == trimEnd(joinAttrs(node.attrs))
             inner == IF node.hasBody
                        THEN renderNodes([isArray |-> TRUE, items |-> node.body])
                        ELSE Rendering(<<>>, 0, FALSE)
         IN IF ~node.hasBody /\ name \in VoidElements
              THEN Rendering(<<"<">> \o name \o attrs \o <<" ", "/>">>, 0, FALSE)
              ELSE Rendering(<<"<">> \o name \o attrs \o <<">">>
                               \o trim(inner.out)
                               \o <<"</">> \o name \o <<">">>,
                             inner.logged, inner.threw)
  ELSE Rendering(<<>>, 1, FALSE)

mapNodes(nodes) ==
  IF nodes = <<>> THEN Rendering(<<>>, 0, FALSE)
  ELSE LET first == renderNode(nodes[1])
       IN IF first.threw THEN first
          ELSE LET rest == mapNodes(Tail(nodes))
               IN Rendering(first.out \o rest.out,
                            first.logged + rest.logged, rest.threw)

\* renderNodes(nodes)
renderNodes(nodes) ==
  IF ~nodes.isArray THEN Rendering(<<>>, 1, FALSE)
  ELSE LET mapped == mapNodes(nodes.items)
       IN Rendering(IF mapped.threw THEN <<>> ELSE trim(mapped.out),
                    mapped.logged, mapped.threw)

\* The spec's example element
DivExample ==
  ElementWith(<<"div">>,
              << Attr(<<"class">>, "string", <<"x">>),
                 Attr(<<"hidden">>, "true", <<>>),
                 Attr(<<"title">>, "false", <<>>) >>,
              << Text(<<"<", "b", ">">>) >>)

\* The nodes handlers return in the model
Nodes ==
  { Text(<<"<", "b", ">">>),
    Text(<<" ", "a", "&", "b">>),
    Comment(<<"note">>),
    Raw(<<"<i>", "x", "</i>">>),
    DivExample,
    Element(<<"meta">>, << Attr(<<"content">>, "string", <<"a", "\"", "b">>),
                          Attr(<<"hidden">>, "null", <<>>) >>),
    ElementWith(<<"p">>, << Attr(<<"id">>, "undefined", <<>>) >>,
                << Shapeless, Text(<<"t">>) >>),
    Shapeless,
    NullNode }

NodeArrays ==
  UNION { [1..n -> Nodes] : n \in 0..MaxNodes }

RenderCalls ==
  { [fn |-> "renderNodes", isArray |-> TRUE, items |-> a] : a \in NodeArrays }
  \cup { [fn |-> "renderNodes", isArray |-> FALSE, items |-> <<>>] }

RenderInit == call \in RenderCalls /\ ret = Pending

RenderNodes ==
  /\ call.fn = "renderNodes"
  /\ ~ret.done
  /\ ret' = [done |-> TRUE, value |-> renderNodes(call)]
  /\ UNCHANGED call
  /\ UNCHANGED notFn

----------------------------------------------------------------------------
(* Runtime nodes: prependNodes, appendNodes, registerRuntimeNodes, injectNodes *)

MaxRuntimeNodes == 2

\* The requests handed to injectNodes
NodeReqs == {"req1", "req2"}

\* self.apos.modules: the methods of each registered module
Modules ==
  [seo |-> {"metaNodes"}, asset |-> {"scriptNodes"}]

\* self.apos.modules[moduleName][method](req): the nodes a method returns
handlerNodes(moduleName, method, r) ==
  IF method = "metaNodes"
    THEN << Element(<<"meta">>, << Attr(<<"name">>, "string", <<r>>) >>),
            ElementWith(<<"title">>, <<>>, << Text(<<"a", "&", "b">>) >>) >>
  ELSE << Raw(<<"<script>", "</script>">>), Shapeless, Comment(<<r>>) >>

\* prependNodes / appendNodes calls: well-formed ones, and ones with a
\* function for the method, no module name, an unknown module, or a method
\* the module does not have
NodeRegistrations ==
  { [end |-> e, location |-> "head", moduleName |-> m, method |-> f] :
      e \in Ends,
      m \in {"seo", "asset", "ghost", "undefined"},
      f \in {"metaNodes", "scriptNodes", "function () {}"} }

\* registerRuntimeNodes with the new entry put first (unshift for push)
registerRuntimeNodes_Unshift(rn, c) ==
  IF c.method \in NotStrings
    THEN [threw |-> TRUE, message |-> "Do not pass a function", runtimeNodes |-> rn]
  ELSE IF c.moduleName \in NotStrings
    THEN [threw |-> TRUE, message |-> "Invalid moduleName", runtimeNodes |-> rn]
  ELSE IF c.moduleName \notin DOMAIN Modules
    THEN [threw |-> TRUE, message |-> "Invalid module", runtimeNodes |-> rn]
  ELSE IF c.method \notin Modules[c.moduleName]
    THEN [threw |-> TRUE, message |-> "Invalid method", runtimeNodes |-> rn]
  ELSE LET key == insertionKey(c.end, c.location)
       IN [threw |-> FALSE, message |-> "",
           runtimeNodes |->
             (key :> (<<[moduleName |-> c.moduleName, method |-> c.method]>>
                        \o listAt(rn, key))) @@ rn]

\* registerRuntimeNodes(end, location, moduleName, method)
registerRuntimeNodes(rn, c) ==
  IF c.method \in NotStrings
    THEN [threw |-> TRUE, message |-> "Do not pass a function", runtimeNodes |-> rn]
  ELSE IF c.moduleName \in NotStrings
    THEN [threw |-> TRUE, message |-> "Invalid moduleName", runtimeNodes |-> rn]
  ELSE IF c.moduleName \notin DOMAIN Modules
    THEN [threw |-> TRUE, message |-> "Invalid module", runtimeNodes |-> rn]
  ELSE IF c.method \notin Modules[c.moduleName]
    THEN [threw |-> TRUE, message |-> "Invalid method", runtimeNodes |-> rn]
  ELSE LET key == insertionKey(c.end, c.location)
       IN [threw |-> FALSE, message |-> "",
           runtimeNodes |->
             (key :> Append(listAt(rn, key),
                            [moduleName |-> c.moduleName, method |-> c.method]))
               @@ rn]

\* output.join('\n')
RECURSIVE joinLines(_)
joinLines(output) ==
  IF output = <<>> THEN <<>>
  ELSE IF Len(output) = 1 THEN output[1]
  ELSE output[1] \o <<"\n">> \o joinLines(Tail(output))

\* The for loop of injectNodes from entry i on: the handlers invoked and
\* the outputs pushed; a throwing renderNodes ends it
RECURSIVE forNodes(_, _, _, _)
forNodes(nodes, i, r, acc) ==
  IF i > Len(nodes) \/ acc.threw THEN acc
  ELSE LET e == nodes[i]
           out == renderNodes([isArray |-> TRUE,
                               items |-> handlerNodes(e.moduleName, e.method, r)])
       IN forNodes(nodes, i + 1, r,
            [invoked |-> Append(acc.invoked,
                                [moduleName |-> e.moduleName,
                                 method |-> e.method, req |-> r]),
             output |-> IF out.threw THEN acc.output
                        ELSE Append(acc.output, out.out),
             threw |-> out.threw])

\* injectNodes(req, locationKey)
injectNodes(rn, r, key) ==
  LET nodes == listAt(rn, key)
      done == forNodes(nodes, 1, r,
                       [invoked |-> <<>>, output |-> <<>>, threw |-> FALSE])
  IN IF Len(nodes) = 0
       THEN [invoked |-> <<>>, html |-> <<>>, threw |-> FALSE]
       ELSE [invoked |-> done.invoked,
             html |-> IF done.threw THEN <<>> ELSE joinLines(done.output),
             threw |-> done.threw]

\* apos.template.prependNodes(...) / appendNodes(...)
RegisterNodes(c) ==
  LET r == registerRuntimeNodes(runtimeNodes, c)
  IN /\ Len(nodeCalls) < MaxRuntimeNodes
     /\ runtimeNodes' = r.runtimeNodes
     /\ nodeCalls' = IF r.threw THEN nodeCalls ELSE Append(nodeCalls, c)
     /\ lastCall' = Ended(c.end \o "Nodes", r.threw, r.message, "-",
                          c.moduleName, c.method)
     /\ UNCHANGED <<asset, insertions, registered, injected, nodesOut>>
     /\ UNCHANGED notIns

\* The inject component asks for the runtime nodes of a key
InjectNodes(r, end, location) ==
  LET key == insertionKey(end, location)
      done == injectNodes(runtimeNodes, r, key)
  IN /\ nodesOut' = [called |-> TRUE, key |-> key, req |-> r,
                      seen |-> Len(listAt(runtimeNodes, key)),
                      invoked |-> done.invoked, html |-> done.html,
                      threw |-> done.threw]
     /\ UNCHANGED <<asset, insertions, registered, injected, lastCall,
                    runtimeNodes, nodeCalls>>
     /\ UNCHANGED notIns

\* The prepend / append calls made next to the runtime-node registrations:
\* one with a component name, one with a function, one object without one
ComponentCalls ==
  { positional("prepend", "head", "seo:meta", Undefined),
    positional("append", "head", "function () {}", Undefined),
    single("prepend", "head", "undefined",
           [when |-> WhenString(<<"hmr">>), bundler |-> "undefined"]) }

----------------------------------------------------------------------------
(* Text helpers: safe, escapeIfNeeded, jsonForHtml *)

MaxText == 3

\* The strings of at most n characters over an alphabet
Strings(alphabet, n) == UNION { [1..k -> alphabet] : k \in 0..n }

\* A value handed to a helper: a string, a number (str its digits), null or
\* undefined, and whether it is a nunjucks SafeString
Value(safe, type, str) == [safe |-> safe, type |-> type, str |-> str]

EscapeInputs ==
  { Value(m, "string", t) :
      m \in BOOLEAN, t \in Strings({"a", "&", "<", "\""}, MaxText) }
  \cup { Value(FALSE, "null", <<>>), Value(FALSE, "undefined", <<>>),
         Value(FALSE, "number", <<"4", "2">>) }

\* safe(s): new self.nunjucks.runtime.SafeString(s)
safe(str) == Value(TRUE, "string", str)

\* escapeIfNeeded that escapes whatever it is given
escapeIfNeeded_AlwaysEscapes(s) ==
  safe(escapeHtml(IF s.type \in {"null", "undefined"} THEN <<>> ELSE s.str))

\* escapeIfNeeded(s)
escapeIfNeeded(s) ==
  IF ~s.safe
    THEN safe(escapeHtml(IF s.type \in {"null", "undefined"} THEN <<>> ELSE s.str))
    ELSE s

EscapeIfNeeded ==
  /\ call.fn = "escapeIfNeeded"
  /\ ~ret.done
  /\ ret' = [done |-> TRUE,
             value |-> [once |-> escapeIfNeeded(call.s),
                        twice |-> escapeIfNeeded(escapeIfNeeded(call.s))]]
  /\ UNCHANGED call
  /\ UNCHANGED notFn

MaxJson == 4

\* The characters of the strings given to jsonForHtml; "script" and "Script"
\* stand for that word in two letter cases, LS and PS for the characters
\* U+2028 and U+2029
JsonChars == {"<", "!", "-", "/", "script", "Script", ">", "LS", "PS"}

JsonInputs ==
  { Value(FALSE, "string", t) : t \in Strings(JsonChars, MaxJson) }
  \cup { Value(FALSE, "undefined", <<>>), Value(FALSE, "null", <<>>) }

\* JSON.stringify(data)
stringify(data) ==
  IF data.type = "string" THEN <<"\"">> \o data.str \o <<"\"">>
  ELSE IF data.type = "null" THEN <<"null">>
  ELSE data.str

\* A regular expression without operators: the characters allowed at each
\* position of a match
matchesAt(s, re) ==
  /\ Len(s) >= Len(re)
  /\ \A i \in DOMAIN re : s[i] \in re[i]

\* s.replace(/re/g, by)
RECURSIVE replaceAll(_, _, _)
replaceAll(s, re, by) ==
  IF s = <<>> THEN <<>>
  ELSE IF matchesAt(s, re)
    THEN by \o replaceAll(SubSeq(s, Len(re) + 1, Len(s)), re, by)
  ELSE <<s[1]>> \o replaceAll(Tail(s), re, by)

\* jsonForHtml with the script replacement sensitive to letter case
jsonForHtml_CaseSensitive(data) ==
  IF data.type = "undefined" THEN <<"null">>
  ELSE LET json == stringify(data)
           a == replaceAll(json, << {"<"}, {"!"}, {"-"}, {"-"} >>,
                           <<"<", "\\", "!", "-", "-">>)
           b == replaceAll(a, << {"<"}, {"/"}, {"script"}, {">"} >>,
                           <<"<", "\\", "/", "script", ">">>)
           c == replaceAll(b, << {"LS"} >>, <<"\\", "u2028">>)
       IN replaceAll(c, << {"PS"} >>, <<"\\", "u2029">>)

\* jsonForHtml(data)
jsonForHtml(data) ==
  IF data.type = "undefined" THEN <<"null">>
  ELSE LET json == stringify(data)
           a == replaceAll(json, << {"<"}, {"!"}, {"-"}, {"-"} >>,
                           <<"<", "\\", "!", "-", "-">>)
           b == replaceAll(a, << {"<"}, {"/"}, {"script", "Script"}, {">"} >>,
                           <<"<", "\\", "/", "script", ">">>)
           c == replaceAll(b, << {"LS"} >>, <<"\\", "u2028">>)
       IN replaceAll(c, << {"PS"} >>, <<"\\", "u2029">>)

JsonForHtml ==
  /\ call.fn = "jsonForHtml"
  /\ ~ret.done
  /\ ret' = [done |-> TRUE, value |-> jsonForHtml(call.s)]
  /\ UNCHANGED call
  /\ UNCHANGED notFn

TextCalls ==
  { [fn |-> "escapeIfNeeded", s |-> v] : v \in EscapeInputs }
  \cup { [fn |-> "jsonForHtml", s |-> v] : v \in JsonInputs }

TextInit == call \in TextCalls /\ ret = Pending

----------------------------------------------------------------------------
(* Specifications *)

FnIdle == call = [fn |-> "none"] /\ ret = Pending

EnvIdle ==
  /\ config = [chain |-> [n \in ModuleNames |-> <<"/core/module">>],
               viewsFolderFallback |-> <<>>]
  /\ EnvStart

InsIdle ==
  /\ asset = [hasHMR |-> FALSE, devServer |-> "false", isDevMode |-> FALSE,
              isProductionMode |-> TRUE, buildModuleAlias |-> "undefined"]
  /\ InsStart

\* Page assembly
Init == PageInit /\ FnIdle /\ EnvIdle /\ InsIdle

Next ==
  \/ \E r \in Reqs : Start(r)
  \/ \E r \in Reqs : BodyDataReturn(r)
  \/ \E r \in Reqs : RenderReturn(r)
  \/ \E r \in Reqs : ErrorRenderReturn(r)

Spec == Init /\ [][Next]_vars

\* unrefreshed over the URLs of the model
InitUrl == PageInit /\ UrlInit /\ EnvIdle /\ InsIdle

SpecUrl == InitUrl /\ [][Unrefresh]_vars

\* getRenderDataArgs over the sources of the model
InitData == PageInit /\ DataInit /\ EnvIdle /\ InsIdle

SpecData == InitData /\ [][RenderDataArgs]_vars

\* renderNodes over the node arrays of the model
InitRender == PageInit /\ RenderInit /\ EnvIdle /\ InsIdle

SpecRender == InitRender /\ [][RenderNodes]_vars

\* The text helpers over the values of the model
NextText == EscapeIfNeeded \/ JsonForHtml

InitText == PageInit /\ TextInit /\ EnvIdle /\ InsIdle

SpecText == InitText /\ [][NextText]_vars

\* getLoader calls, then the teardown
NextLoader ==
  \/ \E name \in ModuleNames, dirs \in DirLists : GetLoader(name, dirs)
  \/ NunjucksLoaderCleanup
  \/ \E fulfilled \in BOOLEAN : DestroySettles(fulfilled)

InitLoader == PageInit /\ FnIdle /\ EnvIdle /\ InsIdle

SpecLoader == InitLoader /\ [][NextLoader]_vars

\* getEnv called for any module with any request, in any order
NextEnv == \E r \in Reqs, name \in ModuleNames : GetEnv(r, name)

InitEnv == PageInit /\ FnIdle /\ EnvInit /\ InsIdle

SpecEnv == InitEnv /\ [][NextEnv]_vars

\* Registrations and inject calls in any order
NextIns ==
  \/ \E c \in Registrations : Register(c)
  \/ \E e \in Ends, l \in Locations, w \in WhenTags : GetInjected(e, l, w)

InitIns == PageInit /\ FnIdle /\ EnvIdle /\ InsInit

SpecIns == InitIns /\ [][NextIns]_vars

\* Registrations of both kinds, valid or not, and injectNodes calls
NextNodes ==
  \/ \E c \in NodeRegistrations : RegisterNodes(c)
  \/ \E c \in ComponentCalls : Register(c)
  \/ \E r \in NodeReqs, e \in Ends, l \in Locations : InjectNodes(r, e, l)

InitNodes == PageInit /\ FnIdle /\ EnvIdle /\ InsIdle

SpecNodes == InitNodes /\ [][NextNodes]_vars

----------------------------------------------------------------------------
(* Page assembly: properties *)

\* The page template's render, or the post-processing of its result, threw,
\* or the request came with an error flag
failed(r) ==
  \/ Truthy(entry[r].req.aposError)
  \/ outcome[r].render \in {"renderThrows", "bundlesThrow"}

errorRenders(r) ==
  Len(SelectSeq(rendered[r], LAMBDA c : c.template = "templateError"))

pageRenders(r) ==
  SelectSeq(rendered[r], LAMBDA c : c.by = "module")

C3_ErrorRenderNotWrapped ==
  \A r \in Reqs :
    /\ Len(logged[r]) <= 1
    /\ errorRenders(r) <= 1
    /\ outcome[r].errorRender = "throws" =>
         /\ pc[r] = "done"
         /\ result[r].kind = "rejected"
         /\ result[r].error = "Error:templateError"

C3_Witness ==
  \E r \in Reqs :
    /\ outcome[r].render = "renderThrows"
    /\ outcome[r].errorRender = "throws"
    /\ result[r].kind = "rejected"

\* C7: the outerLayout passed to the page template is the caller's
\* data.outerLayout when the caller supplies that key; otherwise the refresh
\* layout exactly when req.query.aposRefresh is the string '1', else the
\* outer layout; the default refreshing is true exactly in the refresh case.
C7_OuterLayout ==
  \A r \in Reqs :
    \A i \in DOMAIN pageRenders(r) :
      LET a == pageRenders(r)[i].args
          d == entry[r].data
          refresh == entry[r].req.aposRefresh = "'1'"
      IN /\ a.outerLayout =
              IF "outerLayout" \in DOMAIN d THEN d.outerLayout
              ELSE IF refresh THEN RefreshLayout ELSE OuterLayout
         /\ "refreshing" \notin DOMAIN d =>
              a.refreshing = (IF refresh THEN "true" ELSE "false")

C7_Witness ==
  \E r \in Reqs :
    /\ pageRenders(r) # <<>>
    /\ entry[r].req.aposRefresh = "'1'"
    /\ "outerLayout" \notin DOMAIN entry[r].data
    /\ pageRenders(r)[1].args.outerLayout = RefreshLayout
    /\ pageRenders(r)[1].args.refreshing = "true"

\* C9: the scene computed by getBodyData is the request's own scene when
\* the request carries one; otherwise 'apos' when a user is present on the
\* request and 'public' when not.
C9_Scene ==
  \A r \in Reqs :
    pc[r] # "idle" =>
      LET e == entry[r].req
          expected == IF e.scene # "undefined" THEN e.scene
                      ELSE IF e.user # "undefined" THEN "apos" ELSE "public"
      IN /\ aposBodyData[r].scene = expected
         /\ req[r].scene = expected

C9_Witness ==
  \E r \in Reqs :
    /\ pc[r] # "idle"
    /\ entry[r].req.scene = "public"
    /\ entry[r].req.user = "admin"
    /\ aposBodyData[r].scene = "public"

----------------------------------------------------------------------------
(* Environments: properties *)

requested(name) == \E g \in got : g.name = name

\* C4: for a module with chain [A (root), ..., Z (most derived)] the view
\* folders are exactly [Z/views, ..., A/views, fallback], fallback being
\* the viewsFolderFallback option or <rootDir>/views: the chain reversed,
\* the fallback last, so Z/views is searched before A/views.
C4_ViewFolders ==
  \A name \in DOMAIN envs :
    LET chain == config.chain[name]
        n == Len(chain)
        dirs == envs[name].dirs
    IN /\ Len(dirs) = n + 1
       /\ \A i \in 1..n : dirs[i] = <<chain[n + 1 - i], "/views">>
       /\ dirs[1] = <<chain[n], "/views">>
       /\ dirs[n] = <<chain[1], "/views">>
       /\ dirs[n + 1] = IF config.viewsFolderFallback = <<>>
                           THEN <<RootDir, "/views">>
                           ELSE config.viewsFolderFallback
       /\ \A i \in 1..n : dirs[i] # dirs[n + 1]

C4_Witness ==
  \E name \in DOMAIN envs :
    /\ Len(config.chain[name]) = 3
    /\ envs[name].dirs[1] = <<config.chain[name][3], "/views">>
    /\ envs[name].dirs[3] = <<config.chain[name][1], "/views">>
    /\ envs[name].dirs[4] = <<"/project/shared-views">>

\* C5: after any sequence of getEnv calls, view-folder resolution and
\* environment construction have run exactly once for each module name
\* requested, and every getEnv call for that name returned that same
\* environment, whichever request was passed.
C5_OneEnvPerModule ==
  \A name \in ModuleNames :
    /\ counts["getViewFolders"][name] = (IF requested(name) THEN 1 ELSE 0)
    /\ counts["newEnv"][name] = (IF requested(name) THEN 1 ELSE 0)
    /\ requested(name) <=> name \in DOMAIN envs
    /\ \A g \in got : g.name = name => g.env = envs[name]
    /\ \A g, h \in got : g.env.id = h.env.id <=> g.name = h.name

C5_Witness ==
  \E g, h \in got :
    /\ g.name = h.name
    /\ g.req # h.req
    /\ g.env.id = h.env.id
    /\ counts["newEnv"][g.name] = 1
    /\ \E k \in got : k.name # g.name

----------------------------------------------------------------------------
(* Properties of the insertions *)

Keys == {insertionKey(e, l) : e \in Ends, l \in Locations}

\* The calls made for a key, in call order
callsFor(key) ==
  SelectSeq(registered, LAMBDA c : insertionKey(c.end, locationOf(c)) = key)

\* An entry with its when condition turned into an array
normalized(e) ==
  IF e.conditions.tag = "object" /\ e.conditions.when.kind # "array"
    THEN [e EXCEPT !.conditions.when = WhenArray(e.conditions.when.vals)]
    ELSE e

\* The list of a key holds one entry per call for that key, in call order
inCallOrder(key) ==
  LET list == listAt(insertions, key)
      calls == callsFor(key)
  IN /\ Len(list) = Len(calls)
     /\ \A i \in DOMAIN list :
          /\ list[i].component = calls[i].component
          /\ list[i] \in {entryOf(calls[i]), normalized(entryOf(calls[i]))}

\* A returned list names entries of the key at increasing positions
inListOrder ==
  LET list == listAt(insertions, injected.key)
      at == injected.positions
  IN /\ Len(injected.components) = Len(at)
     /\ \A j \in DOMAIN at :
          /\ at[j] \in DOMAIN list
          /\ injected.components[j] = list[at[j]].component
          /\ j > 1 => at[j - 1] < at[j]

\* A call that changes the registry adds one entry at the end of the list
\* of its key and leaves every list as it was otherwise
appendsOnly ==
  registered' # registered =>
    LET c == registered'[Len(registered')]
        own == insertionKey(c.end, locationOf(c))
    IN \A key \in Keys :
         LET old == listAt(insertions, key)
             new == listAt(insertions', key)
         IN IF key = own
              THEN Len(new) = Len(old) + 1 /\ SubSeq(new, 1, Len(old)) = old
              ELSE new = old

\* C10: each key's list holds the registered entries in registration order,
\* a registration only appends to the list of its own key without removing
\* or reordering an entry, and the components getInjectedComponents returns
\* are those of included entries in list order.
C10_RegistrationOrder ==
  /\ [](/\ \A key \in Keys : inCallOrder(key)
        /\ (injected.called /\ ~injected.threw) => inListOrder)
  /\ [][appendsOnly]_vars

\* Two different components registered for one key and both returned
C10_Witness ==
  /\ Len(registered) = 2
  /\ injected.called /\ ~injected.threw
  /\ Len(injected.components) = 2
  /\ injected.components[1] # injected.components[2]
  /\ injected.positions = <<1, 2>>

----------------------------------------------------------------------------
(* Properties of insertion resolution *)

\* The last getInjectedComponents call returned
returned == injected.called /\ ~injected.threw

\* The entries the last call went over, and those it pushed
seen == 1..injected.seen
entryAt(i) == listAt(insertions, injected.key)[i]
included(i) == \E j \in DOMAIN injected.positions : injected.positions[j] = i

\* The condition names of a when list: the part before ':'
namesOf(vals) == {vals[i][1] : i \in DOMAIN vals}
argOf(val) == IF Len(val) >= 3 THEN val[3] ELSE "undefined"

\* An entry registered as (location, component), nothing more
unconditional(i) == entryAt(i).conditions.tag = "undefined"

\* C11 as stated: an entry registered with no conditions is in every
\* result, whatever tag the call site supplies.
C11_AlwaysIncluded ==
  returned => \A i \in seen : unconditional(i) => included(i)

\* C11: an entry registered with no conditions is in the result of a call
\* that returns exactly when the call site supplies no tag.
C11_IncludedWithoutTag ==
  returned =>
    \A i \in seen :
      unconditional(i) => (included(i) <=> injected.when = "undefined")

\* A tagged call site passed over an entry registered with no conditions
C11_Witness ==
  /\ returned
  /\ injected.when = "hmr"
  /\ \E i \in seen : unconditional(i) /\ ~included(i)

\* C12: with no tag at the call site the call returns normally and includes
\* every entry registered without when or bundler, by either signature.
C12_NoConditionsReturns ==
  (injected.called /\ injected.when = "undefined") =>
    /\ ~injected.threw
    /\ \A i \in seen :
         entryAt(i).conditions.tag \in {"undefined", "null"} => included(i)

\* C13: an included entry with a non-empty when list names the call site's
\* tag before ':' in one of its values, and an entry with an empty when list
\* is not included when the call site supplies a tag.
C13_WhenAgrees ==
  returned =>
    \A i \in seen :
      LET vals == entryAt(i).conditions.when.vals
      IN /\ (included(i) /\ vals # <<>>) => injected.when \in namesOf(vals)
         /\ (vals = <<>> /\ injected.when # "undefined") => ~included(i)

\* An entry declared hmr:apos included at a call site tagged hmr, next to an
\* entry without when that the same call left out
C13_Witness ==
  /\ returned
  /\ injected.when = "hmr"
  /\ \E i \in seen :
       included(i) /\ entryAt(i).conditions.when.vals = << <<"hmr", ":", "apos">> >>
  /\ \E i \in seen : entryAt(i).conditions.when.vals = <<>> /\ ~included(i)

\* C14: every when condition of an included entry names one of hmr, dev and
\* prod and evaluates true; any other name is logged and excludes the entry.
C14_EveryConditionHolds ==
  returned =>
    \A i \in seen :
      LET vals == entryAt(i).conditions.when.vals
      IN /\ included(i) =>
              \A k \in DOMAIN vals :
                /\ vals[k][1] \in Handlers
                /\ handler(vals[k][1], argOf(vals[k]), asset)
         /\ (\E k \in DOMAIN vals : vals[k][1] \notin Handlers) => ~included(i)

\* The build tool in use
activeBundler ==
  IF asset.buildModuleAlias # "undefined" THEN asset.buildModuleAlias
  ELSE "webpack"

\* C15: an entry that specifies bundler is included only when the build
\* tool in use is that bundler.
C15_BundlerMatches ==
  returned =>
    \A i \in seen :
      (included(i) /\ entryAt(i).conditions.bundler # "undefined")
        => entryAt(i).conditions.bundler = activeBundler

\* An entry for vite with nothing else against it, left out under webpack,
\* and one whose when conditions hold included under vite
C15_Witness ==
  /\ returned
  /\ \E i \in seen :
       /\ entryAt(i).conditions.bundler = "vite"
       /\ \/ /\ activeBundler = "webpack"
             /\ entryAt(i).conditions.when.vals = <<>>
             /\ injected.when = "undefined"
             /\ ~included(i)
          \/ /\ activeBundler = "vite"
             /\ entryAt(i).conditions.when.vals # <<>>
             /\ included(i)

\* What a later call makes of a registry
resultOf(ins, key, when) ==
  LET r == getInjectedComponents(ins, key, [when |-> when], asset)
  IN [threw |-> r.threw, components |-> IF r.threw THEN <<>> ELSE r.components]

----------------------------------------------------------------------------
(* Properties of renderNodes *)

\* A call over one named element
oneElement ==
  /\ ret.done /\ call.fn = "renderNodes" /\ call.isArray
  /\ Len(call.items) = 1
  /\ ~call.items[1].isNull
  /\ call.items[1].text = <<>> /\ call.items[1].comment = <<>>
  /\ call.items[1].raw = <<>> /\ call.items[1].name # <<>>

\* An attribute as it is to appear: nothing for false, null and undefined,
\* the bare name for true, name="value" otherwise
attrText(a) ==
  IF a.lit \in {"false", "null", "undefined"} THEN <<>>
  ELSE IF a.lit = "true" THEN escapeHtml(a.key)
  ELSE escapeHtml(a.key) \o <<"=", "\"">> \o escapeHtml(a.str) \o <<"\"">>

\* The attributes that appear, in attrs order, a space before each
RECURSIVE attrsText(_)
attrsText(attrs) ==
  IF attrs = <<>> THEN <<>>
  ELSE (IF attrText(attrs[1]) = <<>> THEN <<>>
        ELSE <<" ">> \o attrText(attrs[1])) \o attrsText(Tail(attrs))

\* The text children of a body, escaped, one after the other
RECURSIVE textsOf(_)
textsOf(body) ==
  IF body = <<>> THEN <<>> ELSE escapeHtml(body[1].text) \o textsOf(Tail(body))

DivExampleHtml ==
  <<"<", "div", " ", "class", "=", "\"", "x", "\"", " ", "hidden", ">",
    "&lt;", "b", "&gt;", "</", "div", ">">>

\* C18: a named element opens with its tag name and its attributes in attrs
\* order (true: bare name; false, null, undefined: omitted; otherwise
\* name="escaped value"), text children are escaped, and the example div
\* renders as <div class="x" hidden>&lt;b&gt;</div>.
C18_Attributes ==
  oneElement =>
    LET n == call.items[1]
        out == ret.value.out
        open == <<"<">> \o escapeHtml(n.name) \o attrsText(n.attrs)
    IN /\ Len(out) >= Len(open) /\ SubSeq(out, 1, Len(open)) = open
       /\ (n.hasBody /\ \A i \in DOMAIN n.body : n.body[i].text # <<>>)
            => out = open \o <<">">> \o trim(textsOf(n.body))
                       \o <<"</">> \o escapeHtml(n.name) \o <<">">>
       /\ n = DivExample => out = DivExampleHtml

\* The example div has been rendered
C18_Witness ==
  /\ oneElement
  /\ call.items[1] = DivExample
  /\ ret.value.out = DivExampleHtml

\* A node with none of the four shapes, array holes included
malformed(n) ==
  n.isNull \/ (n.text = <<>> /\ n.comment = <<>> /\ n.raw = <<>> /\ n.name = <<>>)

\* C19: a call over an array never throws; malformed nodes are logged and
\* the output is that of the well-formed nodes of the array, in order.
C19_NeverThrows ==
  (ret.done /\ call.fn = "renderNodes" /\ call.isArray) =>
    LET wellFormed == SelectSeq(call.items, LAMBDA n : ~malformed(n))
    IN /\ ~ret.value.threw
       /\ ret.value.out
            = renderNodes([isArray |-> TRUE, items |-> wellFormed]).out
       /\ ret.value.logged >= Len(call.items) - Len(wellFormed)

----------------------------------------------------------------------------
(* Properties of the runtime nodes *)

\* The registrations that went through for a key, in call order
nodeCallsFor(key) ==
  SelectSeq(nodeCalls, LAMBDA c : insertionKey(c.end, c.location) = key)

\* What one registered method contributes for a request
htmlOf(c, r) ==
  renderNodes([isArray |-> TRUE,
               items |-> handlerNodes(c.moduleName, c.method, r)]).out

\* C17: injectNodes invokes the methods registered under the key once each,
\* in registration order, with the request, and returns their renderNodes
\* outputs joined by newlines in that order; the empty string when the key
\* has no registration.
C17_InjectNodes ==
  /\ \A key \in Keys :
       LET calls == nodeCallsFor(key)
           list == listAt(runtimeNodes, key)
       IN /\ Len(list) = Len(calls)
          /\ \A i \in DOMAIN list :
               list[i] = [moduleName |-> calls[i].moduleName,
                          method |-> calls[i].method]
  /\ nodesOut.called =>
       LET calls == SubSeq(nodeCallsFor(nodesOut.key), 1, nodesOut.seen)
       IN /\ ~nodesOut.threw
          /\ Len(nodesOut.invoked) = Len(calls)
          /\ \A i \in DOMAIN calls :
               nodesOut.invoked[i] = [moduleName |-> calls[i].moduleName,
                                      method |-> calls[i].method,
                                      req |-> nodesOut.req]
          /\ nodesOut.html
               = joinLines([i \in DOMAIN calls |-> htmlOf(calls[i], nodesOut.req)])
          /\ calls = <<>> => nodesOut.html = <<>>

\* Two different methods registered under one key, both invoked
C17_Witness ==
  /\ nodesOut.called
  /\ Len(nodesOut.invoked) = 2
  /\ nodesOut.invoked[1].method # nodesOut.invoked[2].method
  /\ nodesOut.html # <<>>

\* The arguments the last registration call should be refused for
invalidCall ==
  IF lastCall.fn \in {"prepend", "append"}
    THEN lastCall.component \in NotStrings
    ELSE \/ lastCall.method \in NotStrings
         \/ lastCall.moduleName \in NotStrings
         \/ lastCall.moduleName \notin DOMAIN Modules
         \/ lastCall.method \notin Modules[lastCall.moduleName]

\* C20: a registration with an invalid argument raises an error, and a
\* registration that raises leaves the runtime-node registry and the
\* insertion registry as they were.
C20_InvalidRegistration ==
  /\ []((lastCall.fn # "-" /\ invalidCall) => lastCall.threw)
  /\ [][lastCall'.threw =>
          /\ runtimeNodes' = runtimeNodes /\ nodeCalls' = nodeCalls
          /\ insertions' = insertions /\ registered' = registered]_vars

\* A call refused for a method the module does not have, and one refused
\* for a component that is not a string, with entries in the registries
C20_Witness ==
  /\ lastCall.threw
  /\ \/ lastCall.message = "Invalid method" /\ runtimeNodes # <<>>
     \/ lastCall.fn = "append" /\ insertions # <<>>

----------------------------------------------------------------------------
(* Properties of the text helpers *)

\* C21: escapeIfNeeded returns a value marked safe unchanged, returns any
\* other value as a safe string of its escaped text (empty for null and
\* undefined), and applying it twice gives what applying it once gives.
C21_Idempotent ==
  (ret.done /\ call.fn = "escapeIfNeeded") =>
    /\ ret.value.twice = ret.value.once
    /\ ret.value.once.safe
    /\ call.s.safe => ret.value.once = call.s
    /\ ~call.s.safe =>
         ret.value.once.str
           = escapeHtml(IF call.s.type \in {"null", "undefined"} THEN <<>>
                        ELSE call.s.str)

\* Markup escaped once, and markup marked safe passed through
C21_Witness ==
  /\ ret.done /\ call.fn = "escapeIfNeeded"
  /\ \/ /\ ~call.s.safe /\ call.s.str = <<"<", "&">>
        /\ ret.value.twice.str = <<"&lt;", "&amp;">>
     \/ /\ call.s.safe /\ call.s.str = <<"<", "&">>
        /\ ret.value.twice.str = <<"<", "&">>

\* The text holds the characters of a word, in order, at some position
contains(s, word) ==
  \E i \in 0..(Len(s) - Len(word)) :
    \A j \in DOMAIN word : s[i + j] \in word[j]

\* C22: the text jsonForHtml returns holds no <!--, no </script> in any
\* letter case, no U+2028 and no U+2029; for undefined it is the text null.
C22_ScriptSafe ==
  (ret.done /\ call.fn = "jsonForHtml") =>
    /\ ~contains(ret.value, << {"<"}, {"!"}, {"-"}, {"-"} >>)
    /\ ~contains(ret.value, << {"<"}, {"/"}, {"script", "Script"}, {">"} >>)
    /\ ~contains(ret.value, << {"LS", "PS"} >>)
    /\ call.s.type = "undefined" => ret.value = <<"null">>

\* A closing script tag in capitals has been escaped
C22_Witness ==
  /\ ret.done /\ call.fn = "jsonForHtml"
  /\ call.s.str = <<"<", "/", "Script", ">">>
  /\ ret.value = <<"\"", "<", "\\", "/", "script", ">", "\"">>

----------------------------------------------------------------------------
(* Properties of the loader cache *)

\* C23: when the teardown handler has ended, destroy has been called on
\* every loader of the cache, in cache order, whether or not a destroy
\* raised an error.
C23_AllReleased ==
  teardown.pc \in {"done", "failed"} =>
    teardown.called = valuesOf({loaders[k].id : k \in DOMAIN loaders})

\* C24: getLoader calls with the same module name and the same ordered
\* directory list return the same loader, built by one newLoader call, and
\* calls with different directory lists return different loaders.
C24_LoaderCache ==
  /\ \A a, b \in got :
       a.name = b.name => (a.dirs = b.dirs <=> a.loader = b.loader)
  /\ \A name \in ModuleNames :
       counts["newLoader"][name]
         = Cardinality({a.dirs : a \in {b \in got : b.name = name}})

\* The same pair asked for twice, and the same module with another list
C24_Witness ==
  \E a, b, c \in got :
    /\ a.n # b.n /\ a.name = b.name /\ a.dirs = b.dirs /\ a.loader = b.loader
    /\ c.name = a.name /\ c.dirs # a.dirs /\ c.loader # a.loader

\* C25 as stated: different modules with identical view folders get the
\* same loader and different environments.
C25_SharedLoader ==
  \A a, b \in got :
    (a.name # b.name /\ a.env.dirs = b.env.dirs)
      => (a.env.loader = b.env.loader /\ a.env.id # b.env.id)

\* C25: different modules never get the same loader, identical view folders
\* or not, and never the same environment.
C25_LoaderPerModule ==
  \A a, b \in got :
    a.name # b.name => (a.env.loader # b.env.loader /\ a.env.id # b.env.id)

\* Two modules with identical view folders have their environments
C25_Witness ==
  \E a, b \in got : a.name # b.name /\ a.env.dirs = b.env.dirs

====
